---- MODULE Spec2Model ----
(***************************************************************************)
(* Motor-speed control state machine of the robot car relay server:        *)
(* utils/robot_controller.py, class RobotController.                       *)
(*                                                                         *)
(* The two registers base_velocity and turn_differential are the state of  *)
(* the controller.  Every command mutates them and returns the vector      *)
(* computed by calculate_motor_speeds.  The remaining variables record     *)
(* what a caller observes: the vector returned by the latest call, which   *)
(* call it was, and the registers before the latest two calls.             *)
(***************************************************************************)
EXTENDS Integers, Sequences, FiniteSets, TLC

VARIABLES
    base_velocity,      \* self.base_velocity
    turn_differential,  \* self.turn_differential
    turn_step,          \* the class attribute TURN_STEP as the instance sees it
    motors,             \* the vector returned by the latest call
    last,               \* the latest call: "init" before any call
    prev_base,          \* base_velocity before the latest call
    prev_turn,          \* turn_differential before the latest call
    last2,              \* the call before the latest call
    prev2_base,         \* base_velocity before the call before the latest
    prev2_turn,         \* turn_differential before the call before the latest
    run                 \* length of the current run of identical turn calls

\* The request handler robot_move of main.py (POST /robot/move).
VARIABLES
    pc,                 \* "idle", "handling" (request routed) or "responded"
    request_body,       \* the body of the request being handled
    robot,              \* what requests.post to the robot did for this request
    status,             \* the HTTP status robot_move returned (0: none yet)
    posts,              \* the POSTs issued to the robot for this request
    prev_status         \* the status returned to the request before this one

\* Two callers running commands on the one controller, a read or a write of
\* a register at a time.
VARIABLES
    serialized,         \* TRUE: a lock around each command invocation
    where,              \* per caller: "idle" or the place in the command
    call_of,            \* per caller: the command it runs or ran last
    rd,                 \* per caller: the value computed from its latest read
    eff,                \* per caller: the local effective_base
    chan,               \* per caller: the locals fl, fr, bl, br
    ret,                \* per caller: what its latest command returned
    calls_left,         \* commands that may still be started
    serial_base,        \* base_velocity had the started commands run one by one
    serial_turn         \* turn_differential had they run one by one

controller_vars ==
    << base_velocity, turn_differential, turn_step, motors, last,
       prev_base, prev_turn, last2, prev2_base, prev2_turn, run >>

move_vars == << pc, request_body, robot, status, posts, prev_status >>

race_vars ==
    << serialized, where, call_of, rd, eff, chan, ret, calls_left,
       serial_base, serial_turn >>

\* What the caller of a command keeps of it.
observer_vars ==
    << motors, last, prev_base, prev_turn, last2, prev2_base, prev2_turn, run >>

vars == << controller_vars, move_vars, race_vars >>

(***************************************************************************)
(* Class constants.                                                        *)
(***************************************************************************)
MIN_SPEED == 230
MAX_SPEED == 255
VELOCITY_STEP == 5
TURN_STEP == 15

(***************************************************************************)
(* Bounds of the model.                                                    *)
(***************************************************************************)
\* The run counter stops counting here.
MaxRun == 36
\* TURN_STEP of the test double with an artificially tiny turn step.
TinyTurnStep == 1
\* Commands the two concurrent callers start between them.
MaxCalls == 3

Min(a, b) == IF a <= b THEN a ELSE b
Max(a, b) == IF a >= b THEN a ELSE b
Abs(x) == IF x < 0 THEN -x ELSE x

ZeroVector == [fl |-> 0, fr |-> 0, bl |-> 0, br |-> 0]

\* constrain_motor_speed without the test that zeroes a sub-deadband speed.
constrain_without_deadband(speed) ==
    IF speed = 0 THEN 0
    ELSE IF Abs(speed) > MAX_SPEED
         THEN (IF speed > 0 THEN MAX_SPEED ELSE -MAX_SPEED)
    ELSE speed

\* constrain_motor_speed that zeroes a speed of exactly MIN_SPEED too.
constrain_deadband_inclusive(speed) ==
    IF speed = 0 THEN 0
    ELSE IF Abs(speed) <= MIN_SPEED THEN 0
    ELSE IF Abs(speed) > MAX_SPEED
         THEN (IF speed > 0 THEN MAX_SPEED ELSE -MAX_SPEED)
    ELSE speed

\* constrain_motor_speed without the cap at MAX_SPEED.
constrain_without_cap(speed) ==
    IF speed = 0 THEN 0
    ELSE IF Abs(speed) < MIN_SPEED THEN 0
    ELSE speed

(***************************************************************************)
(* constrain_motor_speed(speed)                                            *)
(***************************************************************************)
constrain_motor_speed(speed) ==
    IF speed = 0 THEN 0
    ELSE IF Abs(speed) < MIN_SPEED THEN 0
    ELSE IF Abs(speed) > MAX_SPEED
         THEN (IF speed > 0 THEN MAX_SPEED ELSE -MAX_SPEED)
    ELSE IF MIN_SPEED <= Abs(speed) /\ Abs(speed) <= MAX_SPEED THEN speed
    ELSE 0

(***************************************************************************)
(* calculate_motor_speeds: the effective base.                             *)
(***************************************************************************)
\* LargeDiffBase with the differential added to MAX_SPEED instead of
\* subtracted from it.
LargeDiffBase_added(abs_diff) ==
    LET eb == Max(245, Min(255 + abs_diff, 230 + abs_diff))
    IN  IF eb < 230 THEN 245 ELSE eb

LargeDiffBase(abs_diff) ==
    LET eb == Max(245, Min(255 - abs_diff, 230 + abs_diff))
    IN  IF eb < 230 THEN 245 ELSE eb

\* effective_base that leaves the base at 0 for every turn from a standstill.
effective_base_without_lift(b, t) == b

\* effective_base that lifts the base only for differentials up to 25.
effective_base_small_only(b, t) ==
    IF b = 0 /\ t # 0 /\ Abs(t) <= 25 THEN 245 ELSE b

effective_base(b, t) ==
    IF b = 0 /\ t # 0
    THEN (IF Abs(t) <= 25 THEN 245 ELSE LargeDiffBase(Abs(t)))
    ELSE b

(***************************************************************************)
(* calculate_motor_speeds: the four constrained channels.                  *)
(***************************************************************************)
\* constrained_channels with the signs of the two rear channels exchanged.
constrained_channels_swapped_rear(b, t) ==
    [fl |-> constrain_motor_speed(effective_base(b, t) + t),
     fr |-> constrain_motor_speed(effective_base(b, t) - t),
     bl |-> constrain_motor_speed(effective_base(b, t) - t),
     br |-> constrain_motor_speed(effective_base(b, t) + t)]

constrained_channels(b, t) ==
    [fl |-> constrain_motor_speed(effective_base(b, t) + t),
     fr |-> constrain_motor_speed(effective_base(b, t) - t),
     bl |-> constrain_motor_speed(effective_base(b, t) + t),
     br |-> constrain_motor_speed(effective_base(b, t) - t)]

(***************************************************************************)
(* calculate_motor_speeds: the test that resets turn_differential.         *)
(***************************************************************************)
\* turn_reset that fires as soon as one pair is zeroed.
turn_reset_any_pair(b, t) ==
    LET m == constrained_channels(b, t)
    IN  b = 0 /\ (m.fl = 0 \/ m.fr = 0 \/ m.bl = 0 \/ m.br = 0) /\ t # 0

turn_reset(b, t) ==
    LET m == constrained_channels(b, t)
    IN  b = 0 /\ m.fl = 0 /\ m.fr = 0 /\ m.bl = 0 /\ m.br = 0 /\ t # 0

(***************************************************************************)
(* calculate_motor_speeds(): the returned vector and the value it leaves   *)
(* in self.turn_differential.                                              *)
(***************************************************************************)
calculate_motor_speeds(b, t) ==
    IF turn_reset(b, t)
    THEN [motors |-> ZeroVector, turn_differential |-> 0]
    ELSE [motors |-> constrained_channels(b, t), turn_differential |-> t]

(***************************************************************************)
(* adjust_velocity: the value left in self.base_velocity.                  *)
(***************************************************************************)
\* stepped_velocity that steps from 0 by VELOCITY_STEP instead of jumping to
\* MIN_SPEED.
stepped_velocity_from_zero(b, direction) ==
    IF direction = "up"
    THEN (IF b >= 0 THEN Min(b + VELOCITY_STEP, MAX_SPEED)
          ELSE Min(b + VELOCITY_STEP, 0))
    ELSE IF direction = "down"
    THEN (IF b > 0 THEN Max(b - VELOCITY_STEP, 0)
          ELSE Max(b - VELOCITY_STEP, -MAX_SPEED))
    ELSE b

\* stepped_velocity without the cap at MAX_SPEED on the way up.
stepped_velocity_uncapped(b, direction) ==
    IF direction = "up"
    THEN (IF b = 0 THEN MIN_SPEED
          ELSE IF b > 0 THEN b + VELOCITY_STEP
          ELSE Min(b + VELOCITY_STEP, 0))
    ELSE IF direction = "down"
    THEN (IF b = 0 THEN -MIN_SPEED
          ELSE IF b > 0 THEN Max(b - VELOCITY_STEP, 0)
          ELSE Max(b - VELOCITY_STEP, -MAX_SPEED))
    ELSE b

\* stepped_velocity that jumps from 0 down to -MAX_SPEED.
stepped_velocity_lopsided(b, direction) ==
    IF direction = "up"
    THEN (IF b = 0 THEN MIN_SPEED
          ELSE IF b > 0 THEN Min(b + VELOCITY_STEP, MAX_SPEED)
          ELSE Min(b + VELOCITY_STEP, 0))
    ELSE IF direction = "down"
    THEN (IF b = 0 THEN -MAX_SPEED
          ELSE IF b > 0 THEN Max(b - VELOCITY_STEP, 0)
          ELSE Max(b - VELOCITY_STEP, -MAX_SPEED))
    ELSE b

stepped_velocity(b, direction) ==
    IF direction = "up"
    THEN (IF b = 0 THEN MIN_SPEED
          ELSE IF b > 0 THEN Min(b + VELOCITY_STEP, MAX_SPEED)
          ELSE Min(b + VELOCITY_STEP, 0))
    ELSE IF direction = "down"
    THEN (IF b = 0 THEN -MIN_SPEED
          ELSE IF b > 0 THEN Max(b - VELOCITY_STEP, 0)
          ELSE Max(b - VELOCITY_STEP, -MAX_SPEED))
    ELSE b

\* snap_velocity that snaps nothing.
snap_nothing(b) == b

\* snap_velocity without the branch for the negative side.
snap_positive_only(b) == IF 0 < b /\ b < MIN_SPEED THEN 0 ELSE b

snap_velocity(b) ==
    IF 0 < b /\ b < MIN_SPEED THEN 0
    ELSE IF -MIN_SPEED < b /\ b < 0 THEN 0
    ELSE b

adjusted_velocity(b, direction) == snap_velocity(stepped_velocity(b, direction))

(***************************************************************************)
(* adjust_turn: the value left in self.turn_differential before the        *)
(* vector is recomputed.                                                   *)
(***************************************************************************)
\* adjusted_turn without the clamp at +-MAX_SPEED.
adjusted_turn_unclamped(t, direction, step) ==
    IF direction = "left" THEN t - step
    ELSE IF direction = "right" THEN t + step
    ELSE t

\* adjusted_turn clamped at +-250 instead of +-MAX_SPEED.
adjusted_turn_clamped_250(t, direction, step) ==
    IF direction = "left" THEN Max(t - step, -250)
    ELSE IF direction = "right" THEN Min(t + step, 250)
    ELSE t

adjusted_turn(t, direction, step) ==
    IF direction = "left" THEN Max(t - step, -MAX_SPEED)
    ELSE IF direction = "right" THEN Min(t + step, MAX_SPEED)
    ELSE t

(***************************************************************************)
(* What a caller records around a call.                                    *)
(***************************************************************************)
Record(call) ==
    /\ last' = call
    /\ last2' = last
    /\ prev_base' = base_velocity
    /\ prev_turn' = turn_differential
    /\ prev2_base' = prev_base
    /\ prev2_turn' = prev_turn
    /\ run' = IF call \in {"left", "right"}
              THEN (IF last = call THEN Min(run + 1, MaxRun) ELSE 1)
              ELSE 0
    /\ UNCHANGED << move_vars, race_vars >>

(***************************************************************************)
(* __init__                                                                *)
(***************************************************************************)
InitWith(step) ==
    /\ base_velocity = 0
    /\ turn_differential = 0
    /\ turn_step = step
    /\ motors = ZeroVector
    /\ last = "init"
    /\ last2 = "init"
    /\ prev_base = 0
    /\ prev_turn = 0
    /\ prev2_base = 0
    /\ prev2_turn = 0
    /\ run = 0

(***************************************************************************)
(* main.py: JSON values and request bodies.  A value is its JSON type and  *)
(* the number Python computes with (False is 0, True is 1).  A body is     *)
(* its JSON type and, per field name, the value `data[field]` or Absent    *)
(* when `field in data` is false.                                          *)
(***************************************************************************)
required_fields == << "fl", "fr", "bl", "br" >>
FieldNames == {required_fields[i] : i \in 1..Len(required_fields)}

Absent == [kind |-> "absent", val |-> 0]
Element == [kind |-> "element", val |-> 0]
JsonInt(n) == [kind |-> "int", val |-> n]
JsonFalse == [kind |-> "bool", val |-> 0]
JsonTrue == [kind |-> "bool", val |-> 1]
\* 230.5: not an int; val is its integer part.
JsonFloat == [kind |-> "float", val |-> 230]

FieldValues ==
    {Absent, JsonInt(0), JsonInt(255), JsonInt(-230), JsonInt(229),
     JsonInt(-256), JsonFalse, JsonTrue, JsonFloat}

NoFields == [f \in FieldNames |-> Absent]
AllNames == [f \in FieldNames |-> Element]

\* JSON objects with any of the four fields.
ObjectBodies == {[kind |-> "object", fields |-> fs] : fs \in [FieldNames -> FieldValues]}

\* Bodies that are not JSON objects: not JSON at all, null, a number, an
\* array or a string without the names, an array or a string with them
\* (["fl","fr","bl","br"], "flfrblbr").
OtherBodies ==
    {[kind |-> "not_json", fields |-> NoFields],
     [kind |-> "null", fields |-> NoFields],
     [kind |-> "number", fields |-> NoFields],
     [kind |-> "array", fields |-> NoFields],
     [kind |-> "array", fields |-> AllNames],
     [kind |-> "string", fields |-> NoFields],
     [kind |-> "string", fields |-> AllNames]}

Bodies == ObjectBodies \cup OtherBodies

NoBody == [kind |-> "none", fields |-> NoFields]

\* requests.post: a response with a status code, or a RequestException.
RobotOutcomes ==
    {[kind |-> "response", code |-> 200],
     [kind |-> "response", code |-> 500],
     [kind |-> "ConnectionError", code |-> 0],
     [kind |-> "Timeout", code |-> 0]}

NoOutcome == [kind |-> "none", code |-> 0]

(***************************************************************************)
(* robot_move: validation of one field, lines 164-170.  TRUE when the      *)
(* handler returns 400 for it.                                             *)
(***************************************************************************)
\* isinstance(speed, int): bool is a subclass of int.
is_instance_int(v) == v.kind \in {"int", "bool"}

speed_rejected(v) ==
    \/ ~is_instance_int(v)
    \/ v.val # 0 /\ (v.val < -255 \/ v.val > 255)
    \/ v.val # 0 /\ Abs(v.val) < 230

(***************************************************************************)
(* robot_move: lines 155-170.  "raise" when an exception other than        *)
(* RequestException is raised, "reject" when 400 is returned, "forward"    *)
(* when the handler goes on to the POST.                                   *)
(***************************************************************************)
validate(data) ==
    IF data.kind = "not_json" THEN "raise"
    ELSE IF data.kind \in {"null", "number"} THEN "raise"
    ELSE IF \E f \in FieldNames : data.fields[f] = Absent THEN "reject"
    ELSE IF data.kind # "object" THEN "raise"
    ELSE IF \E f \in FieldNames : speed_rejected(data.fields[f]) THEN "reject"
    ELSE "forward"

(***************************************************************************)
(* robot_move: lines 172-188, the status after requests.post.              *)
(***************************************************************************)
\* transport_status with the RequestException left to the generic handler.
transport_status_generic(outcome) ==
    IF outcome.kind = "response" THEN outcome.code ELSE 500

transport_status(outcome) ==
    IF outcome.kind = "response" THEN outcome.code ELSE 503

\* post_calls with one retry after a failure or a non-200 response.
post_calls_retry(outcome) ==
    IF outcome.kind = "response" /\ outcome.code = 200 THEN 1 ELSE 2

\* The calls of requests.post per forwarded request, lines 174-179.
post_calls(outcome) == 1

(***************************************************************************)
(* robot_move: the status returned and the POSTs issued.                   *)
(***************************************************************************)
robot_move_result(data, outcome) ==
    LET v == validate(data)
    IN  IF v = "raise" THEN [status |-> 500, posts |-> 0]
        ELSE IF v = "reject" THEN [status |-> 400, posts |-> 0]
        ELSE [status |-> transport_status(outcome), posts |-> post_calls(outcome)]

MoveInit ==
    /\ pc = "idle"
    /\ request_body = NoBody
    /\ robot = NoOutcome
    /\ status = 0
    /\ posts = 0
    /\ prev_status = 0

(***************************************************************************)
(* The callers of the controller: none has started a command.              *)
(***************************************************************************)
Threads == {1, 2}

NoChannels == [fl |-> 0, fr |-> 0, bl |-> 0, br |-> 0]
NoReturn ==
    [cmd |-> "none", base_velocity |-> 0, turn_differential |-> 0,
     motors |-> ZeroVector]

RaceIdle(lock) ==
    /\ serialized = lock
    /\ where = [t \in Threads |-> "idle"]
    /\ call_of = [t \in Threads |-> "none"]
    /\ rd = [t \in Threads |-> 0]
    /\ eff = [t \in Threads |-> 0]
    /\ chan = [t \in Threads |-> NoChannels]
    /\ ret = [t \in Threads |-> NoReturn]
    /\ calls_left = MaxCalls
    /\ serial_base = 0
    /\ serial_turn = 0

Init == InitWith(TURN_STEP) /\ MoveInit /\ RaceIdle(TRUE)

InitDouble == InitWith(TinyTurnStep) /\ MoveInit /\ RaceIdle(TRUE)

InitRace ==
    /\ InitWith(TURN_STEP)
    /\ MoveInit
    /\ \E lock \in BOOLEAN : RaceIdle(lock)

(***************************************************************************)
(* The commands.                                                           *)
(***************************************************************************)
adjust_velocity(direction) ==
    LET b == adjusted_velocity(base_velocity, direction)
        r == calculate_motor_speeds(b, turn_differential)
    IN  /\ base_velocity' = b
        /\ turn_differential' = r.turn_differential
        /\ motors' = r.motors
        /\ Record(direction)
        /\ UNCHANGED turn_step

\* adjust_turn that refuses a turn once the differential is saturated.
adjust_turn_refusing(direction) ==
    LET t == adjusted_turn(turn_differential, direction, turn_step)
        r == calculate_motor_speeds(base_velocity, t)
    IN  /\ t # turn_differential
        /\ turn_differential' = r.turn_differential
        /\ motors' = r.motors
        /\ Record(direction)
        /\ UNCHANGED << base_velocity, turn_step >>

adjust_turn(direction) ==
    LET t == adjusted_turn(turn_differential, direction, turn_step)
        r == calculate_motor_speeds(base_velocity, t)
    IN  /\ turn_differential' = r.turn_differential
        /\ motors' = r.motors
        /\ Record(direction)
        /\ UNCHANGED << base_velocity, turn_step >>

\* kill_switch that forgets to reset turn_differential.
kill_switch_keeps_turn ==
    LET r == calculate_motor_speeds(0, turn_differential)
    IN  /\ base_velocity' = 0
        /\ turn_differential' = r.turn_differential
        /\ motors' = r.motors
        /\ Record("stop")
        /\ UNCHANGED turn_step

kill_switch ==
    LET r == calculate_motor_speeds(0, 0)
    IN  /\ base_velocity' = 0
        /\ turn_differential' = r.turn_differential
        /\ motors' = r.motors
        /\ Record("stop")
        /\ UNCHANGED turn_step

\* get_state that reports the channels before they are constrained.
get_state_unconstrained ==
    LET eb == effective_base(base_velocity, turn_differential)
    IN  /\ motors' = [fl |-> eb + turn_differential, fr |-> eb - turn_differential,
                      bl |-> eb + turn_differential, br |-> eb - turn_differential]
        /\ Record("get_state")
        /\ UNCHANGED << base_velocity, turn_differential, turn_step >>

get_state ==
    LET r == calculate_motor_speeds(base_velocity, turn_differential)
    IN  /\ turn_differential' = r.turn_differential
        /\ motors' = r.motors
        /\ Record("get_state")
        /\ UNCHANGED << base_velocity, turn_step >>

increase_speed == adjust_velocity("up")
decrease_speed == adjust_velocity("down")
turn_left == adjust_turn("left")
turn_right == adjust_turn("right")

Next ==
    \/ increase_speed
    \/ decrease_speed
    \/ turn_left
    \/ turn_right
    \/ kill_switch
    \/ get_state

Spec == Init /\ [][Next]_vars

SpecDouble == InitDouble /\ [][Next]_vars

(***************************************************************************)
(* main.py: POST /robot/move.                                              *)
(***************************************************************************)
\* Flask routes a request to robot_move.
request_arrives ==
    /\ pc = "idle"
    /\ \E body \in Bodies : request_body' = body
    /\ pc' = "handling"
    /\ UNCHANGED << robot, status, posts, prev_status, controller_vars, race_vars >>

\* The handler runs to its return.
robot_move ==
    /\ pc = "handling"
    /\ \E outcome \in RobotOutcomes :
            LET r == robot_move_result(request_body, outcome)
            IN  /\ robot' = IF r.posts > 0 THEN outcome ELSE NoOutcome
                /\ status' = r.status
                /\ posts' = r.posts
    /\ pc' = "responded"
    /\ UNCHANGED << request_body, prev_status, controller_vars, race_vars >>

\* The response is sent and the request context is dropped.
response_sent ==
    /\ pc = "responded"
    /\ pc' = "idle"
    /\ prev_status' = status
    /\ request_body' = NoBody
    /\ robot' = NoOutcome
    /\ status' = 0
    /\ posts' = 0
    /\ UNCHANGED << controller_vars, race_vars >>

MoveNext ==
    \/ request_arrives
    \/ robot_move
    \/ response_sent

SpecMove == Init /\ [][MoveNext]_vars

(***************************************************************************)
(* Two callers on one RobotController.  Each action below is one read or   *)
(* one write of self.base_velocity or self.turn_differential by caller t,  *)
(* together with the local computation up to its next read or write.       *)
(***************************************************************************)
Commands == {"up", "down", "left", "right", "stop", "get_state"}

\* The first read or write of each method.
Entry(c) ==
    IF c \in {"up", "down"} THEN "av_zero"
    ELSE IF c \in {"left", "right"} THEN "at_read"
    ELSE IF c = "stop" THEN "ks_base"
    ELSE "cm_base"

\* The registers after command c run in one piece from registers b, t.
SerialAfter(c, b, t) ==
    IF c \in {"up", "down"}
    THEN [base |-> adjusted_velocity(b, c),
          turn |-> calculate_motor_speeds(adjusted_velocity(b, c), t).turn_differential]
    ELSE IF c \in {"left", "right"}
    THEN [base |-> b,
          turn |-> calculate_motor_speeds(b, adjusted_turn(t, c, turn_step)).turn_differential]
    ELSE IF c = "stop"
    THEN [base |-> 0, turn |-> 0]
    ELSE [base |-> b, turn |-> calculate_motor_speeds(b, t).turn_differential]

\* The mutual-exclusion lock around each command invocation: with it, a
\* command starts only when no other caller is inside one.
lock_free(t) ==
    serialized => \A u \in Threads \ {t} : where[u] = "idle"

\* The tests of lines 53 and 55 on the value just read.
in_positive_deadband_never(r) == FALSE

in_positive_deadband(r) == 0 < r /\ r < MIN_SPEED

\* in_negative_deadband that never holds: no snap on the negative side.
in_negative_deadband_never(r) == FALSE

in_negative_deadband(r) == -MIN_SPEED < r /\ r < 0

\* One step of caller t from place `from` to place `to`, leaving the
\* registers nb, nt and the locals nrd, neff, nchan, and returning nret.
Step(t, from, to, nb, nt, nrd, neff, nchan, nret) ==
    /\ where[t] = from
    /\ where' = [where EXCEPT ![t] = to]
    /\ base_velocity' = nb
    /\ turn_differential' = nt
    /\ rd' = [rd EXCEPT ![t] = nrd]
    /\ eff' = [eff EXCEPT ![t] = neff]
    /\ chan' = [chan EXCEPT ![t] = nchan]
    /\ ret' = [ret EXCEPT ![t] = nret]
    /\ UNCHANGED << serialized, call_of, calls_left, serial_base, serial_turn,
                    turn_step, observer_vars, move_vars >>

\* A step that only reads or only computes.
Local(t, from, to, nrd, neff, nchan) ==
    Step(t, from, to, base_velocity, turn_differential, nrd, neff, nchan, ret[t])

\* The two callers are interchangeable: caller 1 is the one that starts the
\* first command.
first_is_caller_1(t) == calls_left = MaxCalls => t = 1

\* A caller starts a command.
call(t) ==
    /\ where[t] = "idle"
    /\ calls_left > 0
    /\ first_is_caller_1(t)
    /\ lock_free(t)
    /\ \E c \in Commands :
        /\ call_of' = [call_of EXCEPT ![t] = c]
        /\ where' = [where EXCEPT ![t] = Entry(c)]
        /\ serial_base' = SerialAfter(c, serial_base, serial_turn).base
        /\ serial_turn' = SerialAfter(c, serial_base, serial_turn).turn
    /\ calls_left' = calls_left - 1
    /\ ret' = [ret EXCEPT ![t] = NoReturn]
    /\ UNCHANGED << serialized, rd, eff, chan, base_velocity, turn_differential,
                    turn_step, observer_vars, move_vars >>

\* adjust_velocity, lines 31 and 41: if self.base_velocity == 0
av_zero(t) ==
    Local(t, "av_zero", IF base_velocity = 0 THEN "av_jump" ELSE "av_sign",
          rd[t], eff[t], chan[t])

\* lines 33 and 43: self.base_velocity = +-MIN_SPEED
av_jump(t) ==
    Step(t, "av_jump", "snap_pos",
         IF call_of[t] = "up" THEN MIN_SPEED ELSE -MIN_SPEED, turn_differential,
         rd[t], eff[t], chan[t], ret[t])

\* lines 34 and 44: elif self.base_velocity > 0
av_sign(t) ==
    Local(t, "av_sign", IF base_velocity > 0 THEN "av_read_pos" ELSE "av_read_neg",
          rd[t], eff[t], chan[t])

\* lines 35 and 46, the right-hand side
av_read_pos(t) ==
    Local(t, "av_read_pos", "av_write",
          IF call_of[t] = "up"
          THEN Min(base_velocity + VELOCITY_STEP, MAX_SPEED)
          ELSE Max(base_velocity - VELOCITY_STEP, 0),
          eff[t], chan[t])

\* lines 38 and 49, the right-hand side
av_read_neg(t) ==
    Local(t, "av_read_neg", "av_write",
          IF call_of[t] = "up"
          THEN Min(base_velocity + VELOCITY_STEP, 0)
          ELSE Max(base_velocity - VELOCITY_STEP, -MAX_SPEED),
          eff[t], chan[t])

\* lines 35, 38, 46 and 49, the assignment
av_write(t) ==
    Step(t, "av_write", "snap_pos", rd[t], turn_differential,
         0, eff[t], chan[t], ret[t])

\* line 53: if 0 < self.base_velocity < self.MIN_SPEED
snap_pos(t) ==
    Local(t, "snap_pos",
          IF in_positive_deadband(base_velocity) THEN "snap_pos_write" ELSE "snap_neg",
          rd[t], eff[t], chan[t])

\* line 54
snap_pos_write(t) ==
    Step(t, "snap_pos_write", "cm_base", 0, turn_differential,
         rd[t], eff[t], chan[t], ret[t])

\* line 55: elif -self.MIN_SPEED < self.base_velocity < 0
snap_neg(t) ==
    Local(t, "snap_neg",
          IF in_negative_deadband(base_velocity) THEN "snap_neg_write" ELSE "cm_base",
          rd[t], eff[t], chan[t])

\* line 56
snap_neg_write(t) ==
    Step(t, "snap_neg_write", "cm_base", 0, turn_differential,
         rd[t], eff[t], chan[t], ret[t])

\* adjust_turn, lines 71 and 73, the right-hand side
at_read(t) ==
    Local(t, "at_read", "at_write",
          adjusted_turn(turn_differential, call_of[t], turn_step), eff[t], chan[t])

\* lines 71 and 73, the assignment
at_write(t) ==
    Step(t, "at_write", "cm_base", base_velocity, rd[t],
         0, eff[t], chan[t], ret[t])

\* kill_switch, line 84
ks_base(t) ==
    Step(t, "ks_base", "ks_turn", 0, turn_differential,
         rd[t], eff[t], chan[t], ret[t])

\* line 85
ks_turn(t) ==
    Step(t, "ks_turn", "cm_base", base_velocity, 0,
         rd[t], eff[t], chan[t], ret[t])

\* calculate_motor_speeds, line 129: effective_base = self.base_velocity
cm_base(t) ==
    Local(t, "cm_base", "cm_if_base", rd[t], base_velocity, chan[t])

\* line 133: if self.base_velocity == 0
cm_if_base(t) ==
    Local(t, "cm_if_base", IF base_velocity = 0 THEN "cm_if_turn" ELSE "cm_fl",
          rd[t], eff[t], chan[t])

\* line 133: and self.turn_differential != 0
cm_if_turn(t) ==
    Local(t, "cm_if_turn", IF turn_differential # 0 THEN "cm_abs" ELSE "cm_fl",
          rd[t], eff[t], chan[t])

\* lines 136-143: abs_diff = abs(self.turn_differential) and the base chosen
cm_abs(t) ==
    Local(t, "cm_abs", "cm_fl", rd[t],
          IF Abs(turn_differential) <= 25 THEN 245
          ELSE LargeDiffBase(Abs(turn_differential)),
          chan[t])

\* lines 149 and 155
cm_fl(t) ==
    Local(t, "cm_fl", "cm_fr", rd[t], eff[t],
          [chan[t] EXCEPT !.fl = constrain_motor_speed(eff[t] + turn_differential)])

\* lines 150 and 156
cm_fr(t) ==
    Local(t, "cm_fr", "cm_bl", rd[t], eff[t],
          [chan[t] EXCEPT !.fr = constrain_motor_speed(eff[t] - turn_differential)])

\* lines 151 and 157
cm_bl(t) ==
    Local(t, "cm_bl", "cm_br", rd[t], eff[t],
          [chan[t] EXCEPT !.bl = constrain_motor_speed(eff[t] + turn_differential)])

\* lines 152 and 158
cm_br(t) ==
    Local(t, "cm_br", "cm_reset_base", rd[t], eff[t],
          [chan[t] EXCEPT !.br = constrain_motor_speed(eff[t] - turn_differential)])

\* line 161: self.base_velocity == 0 and fl == 0 and fr == 0 and bl == 0 and br == 0
cm_reset_base(t) ==
    Local(t, "cm_reset_base",
          IF base_velocity = 0 /\ chan[t] = NoChannels
          THEN "cm_reset_turn" ELSE "cm_return",
          rd[t], eff[t], chan[t])

\* line 162: and self.turn_differential != 0
cm_reset_turn(t) ==
    Local(t, "cm_reset_turn",
          IF turn_differential # 0 THEN "cm_reset_write" ELSE "cm_return",
          rd[t], eff[t], chan[t])

\* lines 163-165
cm_reset_write(t) ==
    Step(t, "cm_reset_write", "cm_return", base_velocity, 0,
         rd[t], eff[t], NoChannels, ret[t])

\* line 167, and the return of the command that called calculate_motor_speeds
cm_return(t) ==
    IF call_of[t] = "get_state"
    THEN Local(t, "cm_return", "gs_base", rd[t], 0, chan[t])
    ELSE Step(t, "cm_return", "idle", base_velocity, turn_differential,
              0, 0, NoChannels,
              [cmd |-> call_of[t], base_velocity |-> 0, turn_differential |-> 0,
               motors |-> chan[t]])

\* get_state, line 178
gs_base(t) ==
    Local(t, "gs_base", "gs_turn", base_velocity, eff[t], chan[t])

\* lines 177-181: line 179 and the return
gs_turn(t) ==
    Step(t, "gs_turn", "idle", base_velocity, turn_differential,
         0, 0, NoChannels,
         [cmd |-> "get_state", base_velocity |-> rd[t],
          turn_differential |-> turn_differential, motors |-> chan[t]])

RaceNext ==
    \E t \in Threads :
        \/ call(t)
        \/ av_zero(t)
        \/ av_jump(t)
        \/ av_sign(t)
        \/ av_read_pos(t)
        \/ av_read_neg(t)
        \/ av_write(t)
        \/ snap_pos(t)
        \/ snap_pos_write(t)
        \/ snap_neg(t)
        \/ snap_neg_write(t)
        \/ at_read(t)
        \/ at_write(t)
        \/ ks_base(t)
        \/ ks_turn(t)
        \/ cm_base(t)
        \/ cm_if_base(t)
        \/ cm_if_turn(t)
        \/ cm_abs(t)
        \/ cm_fl(t)
        \/ cm_fr(t)
        \/ cm_bl(t)
        \/ cm_br(t)
        \/ cm_reset_base(t)
        \/ cm_reset_turn(t)
        \/ cm_reset_write(t)
        \/ cm_return(t)
        \/ gs_base(t)
        \/ gs_turn(t)

SpecRace == InitRace /\ [][RaceNext]_vars

(***************************************************************************)
(* Vocabulary of the properties.                                           *)
(***************************************************************************)
Channels == {"fl", "fr", "bl", "br"}
Turns == {"left", "right"}

\* A value is in the band a motor can spin at.
InBand(v) == MIN_SPEED <= Abs(v) /\ Abs(v) <= MAX_SPEED

\* A value a channel or base_velocity may hold.
ValidSpeed(v) == v = 0 \/ InBand(v)

\* The left pair, or the right pair, is in the band.
SideInBand(m) ==
    \/ InBand(m.fl) /\ InBand(m.bl)
    \/ InBand(m.fr) /\ InBand(m.br)

\* The registers the latest call handed to calculate_motor_speeds.
base_in == IF last = "stop" THEN 0 ELSE base_velocity
turn_in ==
    IF last \in Turns THEN adjusted_turn(prev_turn, last, turn_step)
    ELSE IF last = "stop" THEN 0
    ELSE prev_turn

Uniform(v) == [fl |-> v, fr |-> v, bl |-> v, br |-> v]

(***************************************************************************)
(* C1: after any sequence of commands, every channel of the returned       *)
(* vector is exactly 0 or has magnitude in [230,255].                      *)
(***************************************************************************)
C1_ChannelsValid ==
    last # "init" => \A ch \in Channels : ValidSpeed(motors[ch])

\* A call returned one pair saturated and the other pair zeroed.
C1_Witness ==
    /\ last = "right"
    /\ prev_base = 0
    /\ motors.fl = MAX_SPEED
    /\ motors.fr = 0
    /\ effective_base(base_velocity, turn_differential) - turn_differential # 0

(***************************************************************************)
(* C2: after every completed command base_velocity is 0 or has absolute    *)
(* value in [230,255]; it is never left strictly inside the deadband.      *)
(***************************************************************************)
C2_BaseOutsideDeadband == ValidSpeed(base_velocity)

\* decrease_speed from 230 went through 225 and was snapped to 0.
C2_Witness ==
    /\ last = "down"
    /\ prev_base = MIN_SPEED
    /\ stepped_velocity(prev_base, "down") = MIN_SPEED - VELOCITY_STEP
    /\ base_velocity = 0

(***************************************************************************)
(* C3: stop (kill_switch) in any reachable state sets both registers to 0  *)
(* and returns the all-zero vector.                                        *)
(***************************************************************************)
C3_StopResets ==
    last = "stop" =>
        /\ base_velocity = 0
        /\ turn_differential = 0
        /\ motors = ZeroVector

\* stop was called while moving and turning.
C3_Witness ==
    /\ last = "stop"
    /\ prev_base # 0
    /\ prev_turn # 0

(***************************************************************************)
(* C4, as stated: with base_velocity = 0 and a tiny TURN_STEP, a turn      *)
(* command from the zero state returns the all-zero vector and resets      *)
(* turn_differential to 0.                                                 *)
(***************************************************************************)
C4_TinyTurnResets ==
    (last \in Turns /\ prev_base = 0 /\ prev_turn = 0 /\ turn_step = TinyTurnStep) =>
        /\ motors = ZeroVector
        /\ turn_differential = 0

(***************************************************************************)
(* C4, amended: with base_velocity = 0, a turn command that leaves a       *)
(* nonzero differential, however small, always clears the deadband on at   *)
(* least one side: the returned vector is not all zero and                 *)
(* turn_differential keeps the value the turn command gave it.             *)
(***************************************************************************)
C4_TinyTurnKept ==
    (last \in Turns /\ base_velocity = 0 /\ turn_in # 0) =>
        /\ motors # ZeroVector
        /\ SideInBand(motors)
        /\ turn_differential = turn_in

\* One turn_right of the double from the zero state: differential 1.
C4_Witness ==
    /\ last = "right"
    /\ turn_step = TinyTurnStep
    /\ prev_base = 0
    /\ prev_turn = 0
    /\ turn_differential = TinyTurnStep
    /\ motors.fl = 245 + TinyTurnStep
    /\ motors.fr = 245 - TinyTurnStep

(***************************************************************************)
(* C5: whenever the vector is computed from base_velocity = 0 and a        *)
(* nonzero turn_differential, the left pair or the right pair has          *)
(* magnitude in [230,255].                                                 *)
(***************************************************************************)
C5_StandstillTurnMoves ==
    /\ (last # "init" /\ base_in = 0 /\ turn_in # 0) => SideInBand(motors)
    /\ (base_velocity = 0 /\ turn_differential # 0) => SideInBand(motors)

\* At a standstill with the differential saturated: left pair at 255,
\* right pair zeroed.
C5_Witness ==
    /\ base_velocity = 0
    /\ turn_differential = MAX_SPEED
    /\ motors.fl = MAX_SPEED
    /\ motors.bl = MAX_SPEED
    /\ motors.fr = 0

(***************************************************************************)
(* C6: get_state is read-only: it leaves both registers unchanged and      *)
(* reports the vector returned by the command that produced the state.     *)
(***************************************************************************)
C6_GetStateReadOnly ==
    [][(last # "init" /\ last' = "get_state") =>
            /\ base_velocity' = base_velocity
            /\ turn_differential' = turn_differential
            /\ motors' = motors]_vars

\* get_state was called right after a command, while moving and turning.
C6_Witness ==
    /\ last = "get_state"
    /\ last2 \in Turns
    /\ base_velocity # 0
    /\ turn_differential # 0
    /\ motors.fr = 0
    /\ motors.fl # 0

(***************************************************************************)
(* C7: from base_velocity = 0, decrease_speed then increase_speed (and     *)
(* increase_speed then decrease_speed) returns base_velocity to 0; from    *)
(* the zero state the round trip leaves both registers 0 and returns the   *)
(* all-zero vector.                                                        *)
(***************************************************************************)
C7_RoundTrip ==
    /\ (last = "up" /\ last2 = "down" /\ prev2_base = 0) =>
            /\ base_velocity = 0
            /\ (prev2_turn = 0 => turn_differential = 0 /\ motors = ZeroVector)
    /\ (last = "down" /\ last2 = "up" /\ prev2_base = 0) =>
            base_velocity = 0

\* decrease_speed then increase_speed from the zero state.
C7_Witness ==
    /\ last = "up"
    /\ last2 = "down"
    /\ prev2_base = 0
    /\ prev2_turn = 0
    /\ prev_base = -MIN_SPEED

(***************************************************************************)
(* C8: from base_velocity = 0, increase_speed sets base_velocity to        *)
(* exactly 230 in one call; with turn_differential = 0 as well it returns  *)
(* {230,230,230,230}.                                                      *)
(***************************************************************************)
C8_JumpToMinSpeed ==
    (last = "up" /\ prev_base = 0) =>
        /\ base_velocity = MIN_SPEED
        /\ (prev_turn = 0 => motors = Uniform(MIN_SPEED))

\* increase_speed from the zero state.
C8_Witness ==
    /\ last = "up"
    /\ prev_base = 0
    /\ prev_turn = 0
    /\ motors.fl = MIN_SPEED

(***************************************************************************)
(* C9: from the zero state one turn_left sets turn_differential to -15,    *)
(* uses effective base 245 and returns fl = bl = 230, fr = br = 255; one   *)
(* turn_right returns fl = bl = 255, fr = br = 230.                        *)
(***************************************************************************)
C9_FirstTurn ==
    /\ (last = "left" /\ prev_base = 0 /\ prev_turn = 0) =>
            /\ turn_differential = -15
            /\ effective_base(base_velocity, turn_differential) = 245
            /\ motors = [fl |-> 230, fr |-> 255, bl |-> 230, br |-> 255]
    /\ (last = "right" /\ prev_base = 0 /\ prev_turn = 0) =>
            /\ turn_differential = 15
            /\ effective_base(base_velocity, turn_differential) = 245
            /\ motors = [fl |-> 255, fr |-> 230, bl |-> 255, br |-> 230]

\* turn_left from the zero state.
C9_Witness ==
    /\ last = "left"
    /\ prev_base = 0
    /\ prev_turn = 0
    /\ base_velocity = 0
    /\ turn_differential < 0

(***************************************************************************)
(* C10: turn_differential stays in [-255,255]; after at most 34            *)
(* consecutive turn_right calls it is exactly 255 and every further        *)
(* turn_right leaves it there; turn_left saturates at -255 likewise.       *)
(***************************************************************************)
C10_TurnSaturates ==
    /\ -MAX_SPEED <= turn_differential /\ turn_differential <= MAX_SPEED
    /\ (last = "right" /\ run >= 34) => turn_differential = MAX_SPEED
    /\ (last = "left" /\ run >= 34) => turn_differential = -MAX_SPEED
    /\ (last = "right" /\ prev_turn = MAX_SPEED) => turn_differential = MAX_SPEED
    /\ (last = "left" /\ prev_turn = -MAX_SPEED) => turn_differential = -MAX_SPEED

\* The 34th consecutive turn_right was the one that reached 255, and one
\* more left it there.
C10_Witness ==
    /\ last = "right"
    /\ run = 35
    /\ prev_turn = MAX_SPEED
    /\ prev2_turn = MAX_SPEED - TURN_STEP
    /\ turn_differential = MAX_SPEED

(***************************************************************************)
(* Vocabulary of the properties of robot_move.                             *)
(***************************************************************************)
\* A JSON integer that is 0 or has magnitude in [230,255].
AcceptableSpeed(v) == v.kind = "int" /\ ValidSpeed(v.val)

\* All four fields present and acceptable.
AcceptableBody(data) ==
    /\ data.kind = "object"
    /\ \A f \in FieldNames : AcceptableSpeed(data.fields[f])

\* Not a JSON object with the four fields.
MalformedBody(data) ==
    \/ data.kind # "object"
    \/ \E f \in FieldNames : data.fields[f] = Absent

TransportFailures == {"ConnectionError", "Timeout"}

(***************************************************************************)
(* C11: robot_move forwards a JSON object only when all four fields are    *)
(* present and each is an integer that is 0 or has magnitude in [230,255]; *)
(* for any other object it answers 400 and performs no POST.               *)
(***************************************************************************)
C11_OnlyValidForwarded ==
    (pc = "responded" /\ request_body.kind = "object") =>
        /\ posts > 0 => AcceptableBody(request_body)
        /\ ~AcceptableBody(request_body) => status = 400 /\ posts = 0

(***************************************************************************)
(* C12: every malformed payload (not JSON, null, not an object with the    *)
(* four fields) is rejected with a 4xx response, never with a 5xx          *)
(* response, and is never forwarded.                                       *)
(***************************************************************************)
C12_MalformedIsClientError ==
    (pc = "responded" /\ MalformedBody(request_body)) =>
        /\ 400 <= status /\ status <= 499
        /\ posts = 0

(***************************************************************************)
(* C13: when the POST of a validated payload fails (network error or       *)
(* timeout), robot_move answers 503; a transport failure is never reported *)
(* as 200; and the server goes on to serve the next request.               *)
(***************************************************************************)
C13_TransportFailureIs503 ==
    /\ (pc = "responded" /\ validate(request_body) = "forward"
            /\ robot.kind \in TransportFailures) => status = 503
    /\ (pc = "responded" /\ status = 200) =>
            /\ robot.kind = "response"
            /\ robot.code = 200
    /\ (pc = "responded" /\ status = 503) => ENABLED response_sent
    /\ (pc = "idle" /\ prev_status = 503) => ENABLED request_arrives

\* A request is answered 200 right after one that was answered 503.
C13_Witness ==
    /\ pc = "responded"
    /\ prev_status = 503
    /\ status = 200
    /\ posts = 1

(***************************************************************************)
(* C14: at most one POST is issued per robot_move request, also after a    *)
(* non-200 response or a network failure.                                  *)
(***************************************************************************)
C14_AtMostOnePost ==
    /\ posts <= 1
    /\ pc = "responded" => (posts = 1 <=> validate(request_body) = "forward")
    /\ (pc = "responded" /\ robot # NoOutcome) => posts = 1

\* A forwarded request whose POST timed out: one POST, no second one.
C14_Witness ==
    /\ pc = "responded"
    /\ robot.kind = "Timeout"
    /\ status = 503
    /\ posts = 1

(***************************************************************************)
(* C16: increase_speed on base_velocity b: 0 gives 230; b > 0 gives        *)
(* min(b + 5, 255); -230 gives 0 in one call; b < -230 gives b + 5; 255 is *)
(* a fixed point.                                                          *)
(***************************************************************************)
C16_IncreaseSpeedTable ==
    last = "up" =>
        /\ prev_base = 0 => base_velocity = 230
        /\ prev_base > 0 => base_velocity = Min(prev_base + 5, 255)
        /\ prev_base = -230 => base_velocity = 0
        /\ prev_base < -230 => base_velocity = prev_base + 5
        /\ prev_base = 255 => base_velocity = 255

\* increase_speed at the fixed point 255.
C16_Witness ==
    /\ last = "up"
    /\ prev_base = MAX_SPEED
    /\ base_velocity = MAX_SPEED

(***************************************************************************)
(* C17: decrease_speed is the sign-mirror of increase_speed: from b it     *)
(* leaves the negation of what increase_speed leaves from -b.              *)
(***************************************************************************)
C17_DecreaseMirrorsIncrease ==
    last = "down" => base_velocity = -adjusted_velocity(-prev_base, "up")

\* decrease_speed from 0 went to -230.
C17_Witness ==
    /\ last = "down"
    /\ prev_base = 0
    /\ base_velocity = -MIN_SPEED

(***************************************************************************)
(* C18: increase_speed and decrease_speed leave turn_differential          *)
(* unchanged; turn_left and turn_right leave base_velocity unchanged and   *)
(* the recomputation of the vector never resets turn_differential.         *)
(***************************************************************************)
C18_RegistersIndependent ==
    /\ last \in {"up", "down"} => turn_differential = prev_turn
    /\ last \in Turns =>
            /\ base_velocity = prev_base
            /\ turn_differential = turn_in

\* decrease_speed brought the base to 0 while turning: the differential
\* stays, with one pair zeroed.
C18_Witness ==
    /\ last = "down"
    /\ prev_base = MIN_SPEED
    /\ base_velocity = 0
    /\ turn_differential = 2 * TURN_STEP
    /\ motors.fr = 0

(***************************************************************************)
(* C19: no terminal state: in every reachable state each of the five       *)
(* commands is enabled, and stop leads back to the registers of the        *)
(* initial state, from which every reachable state is reached.             *)
(***************************************************************************)
StopToInitial ==
    /\ kill_switch
    /\ base_velocity' = 0
    /\ turn_differential' = 0
    /\ turn_step' = TURN_STEP
    /\ motors' = ZeroVector

C19_NoTerminalState ==
    /\ ENABLED increase_speed
    /\ ENABLED decrease_speed
    /\ ENABLED turn_left
    /\ ENABLED turn_right
    /\ ENABLED kill_switch
    /\ ENABLED StopToInitial

\* Both registers saturated, and a further turn_right was still taken.
C19_Witness ==
    /\ base_velocity = -MAX_SPEED
    /\ turn_differential = MAX_SPEED
    /\ last = "right"
    /\ prev_turn = MAX_SPEED

(***************************************************************************)
(* C20: at a standstill with 25 < |t| <= 255 the effective base is         *)
(* clamp(245, 255 - |t|, 230 + |t|), 245 when that is below 230; with the  *)
(* |t| <= 25 branch it depends on |t| only and is never below 230.         *)
(***************************************************************************)
SpecClampBase(a) ==
    LET c == Max(255 - a, Min(245, 230 + a))
    IN  IF c < 230 THEN 245 ELSE c

SpecStandstillBase(a) == IF a <= 25 THEN 245 ELSE SpecClampBase(a)

C20_StandstillBase ==
    (last # "init" /\ base_velocity = 0 /\ turn_differential # 0) =>
        LET t == turn_differential
            a == Abs(turn_differential)
        IN  /\ a > 25 => effective_base(0, t) = SpecClampBase(a)
            /\ effective_base(0, t) = effective_base(0, -t)
            /\ effective_base(0, t) >= 230
            /\ motors.fl = constrain_motor_speed(SpecStandstillBase(a) + t)
            /\ motors.fr = constrain_motor_speed(SpecStandstillBase(a) - t)

\* A differential just past the 25 threshold, reached with steps of 1.
C20_Witness ==
    /\ base_velocity = 0
    /\ turn_differential = -26
    /\ last = "left"
    /\ motors.fr = MAX_SPEED
    /\ motors.fl = 0

(***************************************************************************)
(* C21: the vector is all zeros if and only if base_velocity = 0 and       *)
(* turn_differential = 0; whenever base_velocity is not 0, the left pair   *)
(* or the right pair is nonzero, whatever turn_differential is.            *)
(***************************************************************************)
PairNonzero(m) ==
    \/ m.fl # 0 /\ m.bl # 0
    \/ m.fr # 0 /\ m.br # 0

C21_ZeroOnlyAtRest ==
    /\ motors = ZeroVector <=> (base_velocity = 0 /\ turn_differential = 0)
    /\ base_velocity # 0 =>
            /\ PairNonzero(motors)
            /\ \A t \in -MAX_SPEED..MAX_SPEED :
                    PairNonzero(calculate_motor_speeds(base_velocity, t).motors)

\* Moving at the lowest speed while turning left: the left pair is zeroed,
\* the right pair is not.
C21_Witness ==
    /\ base_velocity = MIN_SPEED
    /\ turn_differential = -TURN_STEP
    /\ motors.fl = 0
    /\ motors.bl = 0
    /\ motors.fr = MIN_SPEED + TURN_STEP
    /\ motors.br = MIN_SPEED + TURN_STEP

(***************************************************************************)
(* C22: every vector a controller command returns is accepted by the       *)
(* validation of robot_move (four fields, integers, each 0 or of magnitude *)
(* in [230,255]): a controller output is never answered 400.               *)
(***************************************************************************)
\* The returned dict of four Python ints as the JSON object a client posts.
json_body(m) ==
    [kind |-> "object", fields |-> [f \in FieldNames |-> JsonInt(m[f])]]

C22_OutputsAccepted ==
    /\ validate(json_body(motors)) = "forward"
    /\ AcceptableBody(json_body(motors))
    /\ \A outcome \in RobotOutcomes :
            robot_move_result(json_body(motors), outcome).status # 400

\* Full speed backwards while turning left: raw channels -285 and -225,
\* returned as -255 and 0.
C22_Witness ==
    /\ last = "left"
    /\ base_velocity = -MAX_SPEED
    /\ turn_differential = -2 * TURN_STEP
    /\ motors.fl = -MAX_SPEED
    /\ motors.fr = 0
    /\ validate(json_body(motors)) = "forward"

(***************************************************************************)
(* Vocabulary of the properties of concurrent callers.                     *)
(***************************************************************************)
AllIdle == \A t \in Threads : where[t] = "idle"

\* A get_state returned a base_velocity strictly inside the deadband.
DeadbandObserved ==
    \E t \in Threads :
        /\ ret[t].cmd = "get_state"
        /\ ret[t].base_velocity # 0
        /\ Abs(ret[t].base_velocity) < MIN_SPEED

\* The registers are not the ones the started commands give one by one.
StepLost ==
    /\ AllIdle
    /\ (base_velocity # serial_base \/ turn_differential # serial_turn)

(***************************************************************************)
(* C15: serialization is required: with each command run under a lock no   *)
(* get_state observes base_velocity strictly inside the deadband and no    *)
(* step is lost; without the lock, interleaved read by read and write by   *)
(* write, such a state is reachable.                                       *)
(***************************************************************************)
C15_SerializedIsSafe ==
    serialized => ~DeadbandObserved /\ ~StepLost

\* Without the lock a get_state returned base_velocity = 225, read between
\* the write of line 46 and the snap of lines 53-54 of a decrease_speed.
C15_Witness ==
    /\ ~serialized
    /\ \E t \in Threads :
        /\ ret[t].cmd = "get_state"
        /\ ret[t].base_velocity = MIN_SPEED - VELOCITY_STEP
    /\ \E t \in Threads : call_of[t] = "down"

\* Without the lock two concurrent turn_right from the zero state left one
\* step of 15 instead of two.
C15_WitnessLostStep ==
    /\ ~serialized
    /\ AllIdle
    /\ \A t \in Threads : ret[t].cmd = "right"
    /\ calls_left = MaxCalls - 2
    /\ serial_turn = 2 * TURN_STEP
    /\ turn_differential = TURN_STEP

(***************************************************************************)
(* C23: also when the commands of two callers interleave without a lock,   *)
(* read by read and write by write, every channel of every returned vector *)
(* is 0 or has magnitude in [230,255], and once no command is in progress  *)
(* base_velocity is 0 or has magnitude in [230,255].                       *)
(***************************************************************************)
C23_InterleavedStillValid ==
    /\ \A t \in Threads : \A ch \in Channels : ValidSpeed(ret[t].motors[ch])
    /\ AllIdle => ValidSpeed(base_velocity)

\* Without the lock a command returned a vector whose front-left and
\* rear-left channels were computed from two different values of
\* turn_differential, both of them valid speeds.
C23_Witness ==
    /\ ~serialized
    /\ AllIdle
    /\ \E t \in Threads :
        /\ ret[t].cmd # "none"
        /\ ret[t].motors.fl # ret[t].motors.bl
        /\ ret[t].motors.fl # 0
        /\ ret[t].motors.bl # 0

(***************************************************************************)
(* C24: in every state reached by commands run one at a time the vector is *)
(* pairwise equal, fl = bl and fr = br, and mirror-symmetric in the turn:  *)
(* with the same base_velocity and turn_differential negated, the left     *)
(* pair takes the value of the right pair and the right pair that of the   *)
(* left pair.                                                              *)
(***************************************************************************)
Mirrored(m) == [fl |-> m.fr, fr |-> m.fl, bl |-> m.br, br |-> m.bl]

C24_PairsAndMirror ==
    /\ motors.fl = motors.bl
    /\ motors.fr = motors.br
    /\ calculate_motor_speeds(base_velocity, -turn_differential).motors
            = Mirrored(motors)

\* Moving at 245 while turning right: the left pair is capped at 255, the
\* right pair is at 230, and the mirrored turn gives 230 and 255.
C24_Witness ==
    /\ base_velocity = 245
    /\ turn_differential = TURN_STEP
    /\ motors = [fl |-> 255, fr |-> 230, bl |-> 255, br |-> 230]
    /\ calculate_motor_speeds(245, -TURN_STEP).motors.fl = 230

(***************************************************************************)
(* C25: in every reachable state turn_differential is a multiple of 15 and *)
(* base_velocity is one of 0, +-230, +-235, +-240, +-245, +-250, +-255;    *)
(* turn_left then turn_right restores turn_differential exactly, except    *)
(* from -255, and turn_right then turn_left restores it, except from 255.  *)
(***************************************************************************)
BaseLattice ==
    {0} \cup {230 + 5 * k : k \in 0..5} \cup {-(230 + 5 * k) : k \in 0..5}

C25_StepLattice ==
    /\ turn_differential % 15 = 0
    /\ base_velocity \in BaseLattice
    /\ (last = "right" /\ last2 = "left") =>
            IF prev2_turn # -255
            THEN turn_differential = prev2_turn
            ELSE turn_differential # prev2_turn
    /\ (last = "left" /\ last2 = "right") =>
            IF prev2_turn # 255
            THEN turn_differential = prev2_turn
            ELSE turn_differential # prev2_turn

\* turn_left from -240 reached the clamp at -255 exactly, and turn_right
\* brought the differential back to -240.
C25_Witness ==
    /\ last = "right"
    /\ last2 = "left"
    /\ prev2_turn = -MAX_SPEED + TURN_STEP
    /\ prev_turn = -MAX_SPEED
    /\ turn_differential = -MAX_SPEED + TURN_STEP
    /\ base_velocity = -235

====
